---- MODULE Spec2Model ----
(***************************************************************************)
(* Model of the momentum strategy's decision engine                        *)
(* (src/Algorithm.Python/MomentumStrategy): the risk overlay state machine *)
(* of risk_model.py, the three construction strategies of                  *)
(* portfolio_model.py and the signal gate of alpha_model.py.               *)
(*                                                                         *)
(* Numbers.  Equity, prices and position values are integers.  Weights and *)
(* percentages are exact rationals <<n, d>> with d > 0, kept in lowest     *)
(* terms; every comparison the code makes on a quotient is made here by    *)
(* cross-multiplication, so a boundary value compares as equal.            *)
(* Time is counted in ticks, TicksPerDay ticks to the calendar day;        *)
(* date() is the integer division by TicksPerDay and timedelta(days=1) =   *)
(* timedelta(hours=24) = TicksPerDay ticks.                                *)
(***************************************************************************)
EXTENDS Integers, Sequences, FiniteSets, TLC

\* ------------------------------------------------------------------ bounds
TicksPerDay == 2
MaxDays == 2

MaxTime == MaxDays * TicksPerDay
MaxStep == TicksPerDay

\* ------------------------------------------------------- exact rationals
RECURSIVE GCD(_, _)
GCD(a, b) == IF b = 0 THEN a ELSE GCD(b, a % b)

Abs(x) == IF x < 0 THEN -x ELSE x

Norm(n, d) ==
    LET s == IF d < 0 THEN -1 ELSE 1
        g == GCD(Abs(n), Abs(d))
    IN  IF n = 0 THEN <<0, 1>> ELSE <<(s * n) \div g, (s * d) \div g>>

RZero == <<0, 1>>
ROne == <<1, 1>>
RHalf == <<1, 2>>
RInt(i) == <<i, 1>>
RAdd(x, y) == Norm(x[1] * y[2] + y[1] * x[2], x[2] * y[2])
RMul(x, y) == Norm(x[1] * y[1], x[2] * y[2])
RDiv(x, y) == Norm(x[1] * y[2], x[2] * y[1])
RNeg(x) == <<-x[1], x[2]>>
RAbs(x) == <<Abs(x[1]), x[2]>>
RLt(x, y) == x[1] * y[2] < y[1] * x[2]
RLe(x, y) == x[1] * y[2] <= y[1] * x[2]
RMin(x, y) == IF RLe(x, y) THEN x ELSE y

RECURSIVE RSum(_)
RSum(s) == IF s = <<>> THEN RZero ELSE RAdd(Head(s), RSum(Tail(s)))

\* ----------------------------------------------------------------- values
Symbols == {"A", "B", "C"}
SymOrder == <<"A", "B", "C">>

NoDate == -1
NoTime == -1
NoMark == -1

date(t) == t \div TicksPerDay
OneDay == TicksPerDay
Hours24 == TicksPerDay

PortfolioTarget(s, q) == [symbol |-> s, quantity |-> q]

\* a holding of the portfolio accessor
Holding(q, avg, p) == [quantity |-> q, average_price |-> avg, price |-> p]
invested(h) == h.quantity # 0
is_long(h) == h.quantity > 0
holdings_value(h) == h.quantity * h.price

\* ---------------------------------------------- risk overlay configuration
max_drawdown_pct == <<1, 10>>
daily_loss_limit == <<3, 100>>
position_stop_loss == <<1, 20>>
risk_max_gross_exposure == <<2, 1>>
trailing_stop_pct == <<2, 25>>

VARIABLES
    time,                   \* algorithm.time
    high_water_mark,        \* MomentumRiskManagementModel fields
    daily_starting_equity,
    last_equity_date,
    position_high_marks,
    is_risk_off,
    risk_off_until,
    current_equity,         \* inputs of the last manage_risk call
    portfolio,
    targets,
    risk_result,            \* what the last manage_risk call returned
    outcome,                \* the return statement it left by
    checked,                \* the value of _check_position_risk in that call
    marks_checked,          \* position_high_marks as that call left them
    entered_at,             \* the time of the latest entry into risk-off mode
    ex_step,                \* progress through the equity sequence of the example
    equity_seen,            \* the highest equity any manage_risk call has observed
    day,                    \* the equity at the first call of the current date, and
                            \* whether the last call was that first call
    stale,                  \* symbols seen flat since their high mark was last raised
    was_off,                \* is_risk_off as the last manage_risk call found it
    n_long,                 \* MomentumAlphaModel fields
    n_short,
    momentum_by_symbol,
    last_generation_time,
    pc_strategy,            \* which construction model is plugged in
    max_position_weight,    \* its fields
    max_gross_exposure,
    last_rebalance_time,
    insight_collection,
    vix_symbol,             \* VolatilityScaledRiskModel fields
    current_vix,
    sector_by_symbol,       \* SectorExposureRiskModel field
    market,                 \* the snapshot the last cycle ran on
    signals,                \* the insights of the last cycle
    pc_targets,             \* what construction returned in the last cycle
    final_targets,          \* what the last overlay layer returned
    rebalance_due,          \* _should_rebalance at the last cycle
    prev_final,             \* final_targets of the cycle before the last
    repeat,                 \* the last cycle repeated its predecessor's asOf and snapshot
    collection_before,      \* insight_collection as the last cycle found it
    vol_targets,            \* what VolatilityScaledRiskModel.manage_risk returned
    gate                    \* what the last cycle's date gates saw and decided

riskVars == <<time, high_water_mark, daily_starting_equity, last_equity_date,
              position_high_marks, is_risk_off, risk_off_until, current_equity,
              portfolio, targets, risk_result, outcome, checked, marks_checked,
              entered_at, ex_step, equity_seen, day, stale, was_off>>

configVars == <<n_long, n_short, pc_strategy, max_position_weight,
                max_gross_exposure, vix_symbol>>

alphaVars == <<momentum_by_symbol, last_generation_time>>

pcVars == <<last_rebalance_time, insight_collection>>

layerVars == <<current_vix, sector_by_symbol>>

cycleVars == <<market, signals, pc_targets, final_targets, rebalance_due,
               prev_final, repeat, collection_before, vol_targets, gate>>

vars == <<riskVars, configVars, alphaVars, pcVars, layerVars, cycleVars>>

\* ------------------------------------------------------------ risk overlay
AllZero(ts) == \A i \in 1..Len(ts) : ts[i].quantity = RZero

SymbolsOf(ts) == {ts[i].symbol : i \in 1..Len(ts)}

\* drawdown = (high_water_mark - current_equity) / high_water_mark > max_drawdown_pct
DrawdownBreached_inclusive(hwm, eq) ==
    (hwm - eq) * max_drawdown_pct[2] >= max_drawdown_pct[1] * hwm

DrawdownBreached(hwm, eq) ==
    IF hwm > 0 THEN (hwm - eq) * max_drawdown_pct[2] > max_drawdown_pct[1] * hwm
    ELSE (hwm - eq) * max_drawdown_pct[2] < max_drawdown_pct[1] * hwm

\* daily_pnl = (current_equity - daily_starting_equity) / daily_starting_equity
\*           < -daily_loss_limit
DailyLossBreached_inclusive(eq, dse) ==
    (eq - dse) * daily_loss_limit[2] <= -(daily_loss_limit[1] * dse)

DailyLossBreached(eq, dse) ==
    IF dse > 0 THEN (eq - dse) * daily_loss_limit[2] < -(daily_loss_limit[1] * dse)
    ELSE (eq - dse) * daily_loss_limit[2] > -(daily_loss_limit[1] * dse)

\* algorithm.time < self.risk_off_until
CooldownActive_inclusive(now, until) == now <= until

CooldownActive(now, until) == now < until

InCooldown_never(off, now, until) == FALSE

\* self.is_risk_off and algorithm.time < self.risk_off_until
InCooldown(off, now, until) == off /\ CooldownActive(now, until)

ResetDaily_once(reset, eq, dse) == IF dse = 0 THEN eq ELSE dse

\* self.daily_starting_equity = current_equity, on the first call and on a
\* new date
ResetDaily(reset, eq, dse) == IF reset THEN eq ELSE dse

\* self.risk_off_until = algorithm.time + duration
_enter_risk_off_mode(now, duration) == now + duration

RECURSIVE LiquidateHoldings(_, _)
LiquidateHoldings(pf, order) ==
    IF order = <<>> THEN <<>>
    ELSE (IF invested(pf[Head(order)])
          THEN <<PortfolioTarget(Head(order), RZero)>> ELSE <<>>)
         \o LiquidateHoldings(pf, Tail(order))

RECURSIVE LiquidateTargets_unchecked(_, _)
LiquidateTargets_unchecked(ts, acc) ==
    IF ts = <<>> THEN acc
    ELSE LiquidateTargets_unchecked(Tail(ts),
            Append(acc, PortfolioTarget(Head(ts).symbol, RZero)))

RECURSIVE LiquidateTargets(_, _)
LiquidateTargets(ts, acc) ==
    IF ts = <<>> THEN acc
    ELSE LiquidateTargets(Tail(ts),
            IF Head(ts).symbol \notin SymbolsOf(acc)
            THEN Append(acc, PortfolioTarget(Head(ts).symbol, RZero))
            ELSE acc)

_liquidate_all(pf, ts) == LiquidateTargets(ts, LiquidateHoldings(pf, SymOrder))

\* pnl_pct < -self.position_stop_loss, pnl_pct relative to average_price
HardStop(h) ==
    LET diff == IF is_long(h) THEN h.price - h.average_price
                ELSE h.average_price - h.price
    IN  diff * position_stop_loss[2] < -(position_stop_loss[1] * h.average_price)

\* current_value < high_mark * (1 - self.trailing_stop_pct)
TrailingStop(current_value, high_mark) ==
    current_value * trailing_stop_pct[2]
        < high_mark * (trailing_stop_pct[2] - trailing_stop_pct[1])

RaiseMark_reset(marks, s, current_value) == [marks EXCEPT ![s] = current_value]

\* position_high_marks[symbol] = max(position_high_marks[symbol], current_value),
\* current_value when the symbol has no entry yet
RaiseMark(marks, s, current_value) ==
    IF marks[s] = NoMark \/ current_value > marks[s]
    THEN [marks EXCEPT ![s] = current_value] ELSE marks

RECURSIVE CheckPositions(_, _, _, _)
CheckPositions(pf, ts, marks, adjusted) ==
    IF ts = <<>> THEN [targets |-> adjusted, marks |-> marks]
    ELSE LET t == Head(ts)
             h == pf[t.symbol]
             current_value == Abs(holdings_value(h))
             marks2 == RaiseMark(marks, t.symbol, current_value)
         IN  IF ~invested(h)
             THEN CheckPositions(pf, Tail(ts), marks, Append(adjusted, t))
             ELSE IF HardStop(h) \/ TrailingStop(current_value, marks2[t.symbol])
             THEN CheckPositions(pf, Tail(ts), marks2,
                                 Append(adjusted, PortfolioTarget(t.symbol, RZero)))
             ELSE CheckPositions(pf, Tail(ts), marks2, Append(adjusted, t))

_check_position_risk(pf, ts, marks) == CheckPositions(pf, ts, marks, <<>>)

RECURSIVE HoldingsGross(_, _)
HoldingsGross(pf, order) ==
    IF order = <<>> THEN 0
    ELSE (IF invested(pf[Head(order)]) THEN Abs(holdings_value(pf[Head(order)])) ELSE 0)
         + HoldingsGross(pf, Tail(order))

ScaleTargets(ts, f) ==
    [i \in 1..Len(ts) |-> PortfolioTarget(ts[i].symbol, RMul(ts[i].quantity, f))]

_check_gross_exposure(pf, ts, eq) ==
    LET gross_exposure == IF eq > 0 THEN <<HoldingsGross(pf, SymOrder), eq>> ELSE RZero
    IN  IF RLt(risk_max_gross_exposure, gross_exposure)
        THEN ScaleTargets(ts, RDiv(risk_max_gross_exposure, gross_exposure))
        ELSE ts

\* ---------------------------------------------------------- signal ranker
n_long_default == 5
n_short_default == 5
insight_period == OneDay
excluded_symbols == {"TQQQ", "SQQQ", "UVXY"}

Insight(s, dir, mag, conf, now) ==
    [symbol |-> s, direction |-> dir, magnitude |-> mag, confidence |-> conf,
     close_time |-> now + insight_period]

HasGenerated_never(last) == FALSE

\* self.last_generation_time is not None
HasGenerated(last) == last # NoTime

GenerationGated_elapsed(last, now) == HasGenerated(last) /\ now - last < OneDay

\* "only generate once per day": the date of the last generation is today's
GenerationGated(last, now) == HasGenerated(last) /\ date(last) = date(now)

Extreme_inclusive(momentum) == Abs(momentum) >= 500

\* abs(momentum) > 500: "filter extreme values (potential data errors)"
Extreme(momentum) == Abs(momentum) > 500

\* scores of the tracked symbols that pass the filters, in dictionary order
RECURSIVE _calculate_momentum_scores(_, _)
_calculate_momentum_scores(tracked, snap) ==
    IF tracked = <<>> THEN <<>>
    ELSE LET s == Head(tracked)
             rest == _calculate_momentum_scores(Tail(tracked), snap)
         IN  IF ~snap[s].is_ready THEN rest
             ELSE IF ~snap[s].listed THEN rest
             ELSE IF snap[s].price <= 0 THEN rest
             ELSE IF Extreme(snap[s].value) THEN rest
             ELSE <<[symbol |-> s, score |-> snap[s].value]>> \o rest

\* sorted(..., key=score, reverse=True): stable, descending
RECURSIVE InsertRanked(_, _)
InsertRanked(ranked, e) ==
    IF ranked = <<>> THEN <<e>>
    ELSE IF Head(ranked).score >= e.score
         THEN <<Head(ranked)>> \o InsertRanked(Tail(ranked), e)
         ELSE <<e>> \o ranked

RECURSIVE Ranked(_, _)
Ranked(scores, acc) ==
    IF scores = <<>> THEN acc ELSE Ranked(Tail(scores), InsertRanked(acc, Head(scores)))

\* ranked[:n]
FirstN(seq, n) == SubSeq(seq, 1, IF n < Len(seq) THEN n ELSE Len(seq))

\* ranked[-n:]  (Python: -0 is 0, so n = 0 takes the whole list)
LastN(seq, n) ==
    IF n = 0 \/ n >= Len(seq) THEN seq ELSE SubSeq(seq, Len(seq) - n + 1, Len(seq))

RECURSIVE ISqrtFrom(_, _)
ISqrtFrom(x, r) == IF (r + 1) * (r + 1) > x THEN r ELSE ISqrtFrom(x, r + 1)

\* the square root of a rational, rounded down to one decimal
RSqrt(x) == Norm(ISqrtFrom((x[1] * 100) \div x[2], 0), 10)

RMax(x, y) == IF RLe(x, y) THEN y ELSE x

ScoreSum(scores) == RSum([i \in 1..Len(scores) |-> RInt(scores[i].score)])

_calculate_confidence(score, all_scores) ==
    IF all_scores = <<>> THEN RHalf
    ELSE LET n == RInt(Len(all_scores))
             mean == RDiv(ScoreSum(all_scores), n)
             dev(v) == RAdd(RInt(v), RNeg(mean))
             var == RDiv(RSum([i \in 1..Len(all_scores) |->
                                RMul(dev(all_scores[i].score), dev(all_scores[i].score))]), n)
         IN  IF var = RZero THEN RHalf
             ELSE LET z_score == RSqrt(RDiv(RMul(dev(score), dev(score)), var))
                  IN  RMin(<<9, 10>>, RMax(<<3, 10>>, RAdd(RHalf, RMul(z_score, <<1, 10>>))))

InsightsFor(picked, dir, scores, now) ==
    [i \in 1..Len(picked) |->
        Insight(picked[i].symbol, dir, Abs(picked[i].score),
                _calculate_confidence(picked[i].score, scores), now)]

Insufficient_never(count, nl, ns) == FALSE

\* len(scores) < (self.n_long + self.n_short)
Insufficient(count, nl, ns) == count < nl + ns

StampOnShortfall_skipped(now, last) == last

\* self.last_generation_time = algorithm.time comes before the len(scores)
\* check, so the insufficiency return leaves the new time recorded
StampOnShortfall(now, last) == now

\* MomentumAlphaModel.update: the insights and the new last_generation_time
update(now, last, tracked, snap, nl, ns) ==
    IF GenerationGated(last, now)
    THEN [insights |-> <<>>, last_generation_time |-> last]
    ELSE LET scores == _calculate_momentum_scores(tracked, snap)
             ranked == Ranked(scores, <<>>)
         IN  IF Insufficient(Len(scores), nl, ns)
             THEN [insights |-> <<>>, last_generation_time |-> StampOnShortfall(now, last)]
             ELSE [insights |-> InsightsFor(FirstN(ranked, nl), "UP", scores, now)
                                \o InsightsFor(LastN(ranked, ns), "DOWN", scores, now),
                   last_generation_time |-> now]

\* MomentumAlphaModel.on_securities_changed on the dictionary's key order
RECURSIVE AddTracked(_, _)
AddTracked(tracked, added) ==
    IF added = <<>> THEN tracked
    ELSE AddTracked(
            IF Head(added) \notin excluded_symbols
               /\ Head(added) \notin {tracked[i] : i \in 1..Len(tracked)}
            THEN Append(tracked, Head(added)) ELSE tracked,
            Tail(added))

RemoveTracked(tracked, removed) == SelectSeq(tracked, LAMBDA s : s \notin removed)

\* --------------------------------------------------- portfolio construction
\* Insight.is_active(utc_time): not yet past its close time
IsActive(i, now) == i.close_time >= now

\* add_range then get_active_insights; insights that have expired can never
\* be active again and are not kept
ActiveInsights(collection, insights, now) ==
    SelectSeq(collection \o insights, LAMBDA i : IsActive(i, now))

Ups(active) == SelectSeq(active, LAMBDA i : i.direction = "UP")
Downs(active) == SelectSeq(active, LAMBDA i : i.direction = "DOWN")

GrossOf(ts) == RSum([i \in 1..Len(ts) |-> RAbs(ts[i].quantity)])

\* "Validate gross exposure": scale down proportionally when over the limit
ValidateGross(ts, mge) ==
    IF RLt(mge, GrossOf(ts)) THEN ScaleTargets(ts, RDiv(mge, GrossOf(ts))) ELSE ts

CapWeight_uncapped(w, mpw) == w

\* min(weight, self.max_position_weight)
CapWeight(w, mpw) == RMin(w, mpw)

\* MomentumPortfolioConstructionModel._should_rebalance, daily resolution
_should_rebalance(now, last) == last = NoTime \/ date(now) > date(last)

\* each determine_target_percent returns its targets, the insight collection
\* and last_rebalance_time as it leaves them
EqualWeight(now, insights, collection, last, mpw, mge) ==
    IF insights = <<>>
    THEN [targets |-> <<>>, collection |-> collection, last |-> last]
    ELSE LET active == ActiveInsights(collection, insights, now)
             total_positions == Len(Ups(active)) + Len(Downs(active))
         IN  IF active = <<>> \/ total_positions = 0
             THEN [targets |-> <<>>, collection |-> active, last |-> last]
             ELSE LET weight == CapWeight(<<1, total_positions>>, mpw)
                      raw == [i \in 1..Len(Ups(active)) |->
                                 PortfolioTarget(Ups(active)[i].symbol, weight)]
                             \o [i \in 1..Len(Downs(active)) |->
                                 PortfolioTarget(Downs(active)[i].symbol, RNeg(weight))]
                  IN  [targets |-> ValidateGross(raw, mge),
                       collection |-> active, last |-> now]

\* the keys of {i.symbol: ... for i in insights_list}, in first-insertion order
RECURSIVE DictKeys(_, _)
DictKeys(list, keys) ==
    IF list = <<>> THEN keys
    ELSE DictKeys(Tail(list),
            IF Head(list).symbol \in {keys[k] : k \in 1..Len(keys)}
            THEN keys ELSE Append(keys, Head(list).symbol))

\* the value the comprehension leaves under a key: that of its last insight
LastOf(list, s) ==
    list[CHOOSE i \in 1..Len(list) :
            /\ list[i].symbol = s
            /\ \A j \in (i + 1)..Len(list) : list[j].symbol # s]

confidence_weights(list, s) ==
    LET total_conf == RSum([i \in 1..Len(list) |-> list[i].confidence])
    IN  IF total_conf = RZero THEN <<1, Len(list)>>
        ELSE RDiv(LastOf(list, s).confidence, total_conf)

SideTargets(list, allocation, sign, mpw) ==
    LET keys == DictKeys(list, <<>>)
    IN  [k \in 1..Len(keys) |->
            PortfolioTarget(keys[k],
                RMul(sign, CapWeight(RMul(confidence_weights(list, keys[k]), allocation), mpw)))]

ConfidenceWeighted(now, insights, collection, last, mpw, mge) ==
    IF insights = <<>>
    THEN [targets |-> <<>>, collection |-> collection, last |-> last]
    ELSE LET active == ActiveInsights(collection, insights, now)
         IN  IF active = <<>>
             THEN [targets |-> <<>>, collection |-> active, last |-> last]
             ELSE [targets |-> SideTargets(Ups(active), RHalf, ROne, mpw)
                               \o SideTargets(Downs(active), RHalf, RNeg(ROne), mpw),
                   collection |-> active, last |-> now]

NoVol == <<0, 1>>

InvVolSum_plain(list, vols) ==
    IF list = <<>> THEN ROne
    ELSE RSum([i \in 1..Len(list) |-> vols[list[i].symbol]])

\* sum(inv_vols[i.symbol] for i in side) if side else 1
InvVolSum(list, vols) ==
    IF list = <<>> THEN ROne
    ELSE RSum([i \in 1..Len(list) |-> RDiv(ROne, vols[list[i].symbol])])

ParityTargets(list, vols, sign, mpw) ==
    [i \in 1..Len(list) |->
        PortfolioTarget(list[i].symbol,
            RMul(sign, CapWeight(RMul(RDiv(RDiv(ROne, vols[list[i].symbol]),
                                           InvVolSum(list, vols)), RHalf), mpw)))]

\* vols[s] is the annualized volatility of s, NoVol when the history is too
\* short or the volatility is not positive
RiskParity(now, insights, collection, last, mpw, mge, vols) ==
    IF insights = <<>>
    THEN [targets |-> <<>>, collection |-> collection, last |-> last]
    ELSE LET active == ActiveInsights(collection, insights, now)
             usable(i) == vols[i.symbol] # NoVol
             long_insights == SelectSeq(Ups(active), usable)
             short_insights == SelectSeq(Downs(active), usable)
         IN  IF active = <<>>
             THEN [targets |-> <<>>, collection |-> active, last |-> last]
             ELSE IF \A k \in 1..Len(active) : ~usable(active[k])
             THEN EqualWeight(now, insights, active, last, mpw, mge)
             ELSE [targets |-> ParityTargets(long_insights, vols, ROne, mpw)
                               \o ParityTargets(short_insights, vols, RNeg(ROne), mpw),
                   collection |-> active, last |-> now]

determine_target_percent(strategy, now, insights, collection, last, mpw, mge, vols) ==
    IF strategy = "equal" THEN EqualWeight(now, insights, collection, last, mpw, mge)
    ELSE IF strategy = "confidence"
         THEN ConfidenceWeighted(now, insights, collection, last, mpw, mge)
    ELSE RiskParity(now, insights, collection, last, mpw, mge, vols)

\* the equity sequence of the spec's example
ExampleEquity == <<100, 100, 95, 89>>

ExStep(step, eq) ==
    IF step < 0 THEN step
    ELSE IF step >= Len(ExampleEquity) THEN (IF step = Len(ExampleEquity) THEN step + 1 ELSE -1)
    ELSE IF ExampleEquity[step + 1] = eq THEN step + 1 ELSE -1

RaiseHighWaterMark_track(hwm, eq) == eq

\* if current_equity > self.high_water_mark: the mark follows the equity up
RaiseHighWaterMark(hwm, eq) == IF eq > hwm THEN eq ELSE hwm

manage_risk(dt, eq, pf, ts) ==
    LET now == time + dt
        first == high_water_mark = 0
        hwm0 == IF first THEN eq ELSE high_water_mark
        newday == last_equity_date # date(now)
        dse == ResetDaily(newday \/ first, eq, daily_starting_equity)
        hwm == RaiseHighWaterMark(hwm0, eq)
        cooldown == InCooldown(is_risk_off, now, risk_off_until)
        pos == _check_position_risk(pf, ts, position_high_marks)
    IN  /\ now <= MaxTime
        \* an exception that leaves manage_risk ends the algorithm
        /\ outcome # "raised"
        /\ time' = now
        /\ current_equity' = eq
        /\ equity_seen' = IF outcome = "none" \/ eq > equity_seen THEN eq ELSE equity_seen
        /\ day' = IF newday THEN [open |-> eq, first |-> TRUE]
                  ELSE [open |-> day.open, first |-> FALSE]
        /\ portfolio' = pf
        /\ targets' = ts
        /\ ex_step' = ExStep(ex_step, eq)
        /\ high_water_mark' = hwm
        /\ daily_starting_equity' = dse
        /\ last_equity_date' = date(now)
        /\ entered_at' = IF ~cooldown /\ hwm # 0
                             /\ (DrawdownBreached(hwm, eq)
                                 \/ (dse # 0 /\ DailyLossBreached(eq, dse)))
                          THEN now ELSE entered_at
        /\ IF cooldown
           THEN /\ outcome' = "cooldown"
                /\ risk_result' = _liquidate_all(pf, ts)
                /\ checked' = <<>>
                /\ UNCHANGED <<is_risk_off, risk_off_until, position_high_marks>>
           ELSE IF hwm = 0
           THEN \* ZeroDivisionError in _check_portfolio_risk
                /\ outcome' = "raised"
                /\ risk_result' = <<>>
                /\ checked' = <<>>
                /\ is_risk_off' = FALSE
                /\ UNCHANGED <<risk_off_until, position_high_marks>>
           ELSE IF DrawdownBreached(hwm, eq)
           THEN /\ outcome' = "drawdown"
                /\ is_risk_off' = TRUE
                /\ risk_off_until' = _enter_risk_off_mode(now, OneDay)
                /\ risk_result' = _liquidate_all(pf, ts)
                /\ checked' = <<>>
                /\ UNCHANGED position_high_marks
           ELSE IF dse = 0
           THEN /\ outcome' = "raised"
                /\ risk_result' = <<>>
                /\ checked' = <<>>
                /\ is_risk_off' = FALSE
                /\ UNCHANGED <<risk_off_until, position_high_marks>>
           ELSE IF DailyLossBreached(eq, dse)
           THEN /\ outcome' = "daily"
                /\ is_risk_off' = TRUE
                /\ risk_off_until' = _enter_risk_off_mode(now, Hours24)
                /\ risk_result' = _liquidate_all(pf, ts)
                /\ checked' = <<>>
                /\ UNCHANGED position_high_marks
           ELSE /\ outcome' = "normal"
                /\ is_risk_off' = FALSE
                /\ position_high_marks' = pos.marks
                /\ checked' = pos.targets
                /\ risk_result' = _check_gross_exposure(pf, pos.targets, eq)
                /\ UNCHANGED risk_off_until
        /\ marks_checked' = position_high_marks'
        /\ was_off' = is_risk_off
        /\ stale' = {s \in Symbols :
                        /\ position_high_marks'[s] = position_high_marks[s]
                        /\ position_high_marks[s] # NoMark
                        /\ (s \in stale \/ ~invested(pf[s]))}

DeleteMarks_all(marks, removed) == [s \in Symbols |-> NoMark]

\* del self.position_high_marks[security.symbol] for each removed security
DeleteMarks(marks, removed) ==
    [s \in Symbols |-> IF s \in removed THEN NoMark ELSE marks[s]]

\* on_securities_changed: removed securities lose their high mark
on_securities_changed(removed) ==
    /\ position_high_marks' = DeleteMarks(position_high_marks, removed)
    /\ stale' = stale \ removed
    /\ UNCHANGED <<time, high_water_mark, daily_starting_equity, last_equity_date,
                   is_risk_off, risk_off_until, current_equity, portfolio, targets,
                   risk_result, outcome, checked, marks_checked, entered_at,
                   ex_step, equity_seen, day, was_off>>

\* ------------------------------------------------- further overlay layers
vix_high_threshold == 30
vix_extreme_threshold == 40
vix_default == 15
max_sector_exposure == <<3, 10>>

NoSector == "none"
NoFundamentals == -1

\* VolatilityScaledRiskModel._apply_volatility_scaling: the VIX it ends with
VixSeen(vix, price) == IF vix_symbol = "VIX" /\ price > 0 THEN price ELSE vix

VixScale_exclusive(vix) ==
    IF vix > vix_extreme_threshold THEN <<1, 4>>
    ELSE IF vix > vix_high_threshold THEN <<1, 2>>
    ELSE ROne

\* the scale_factor chosen from self.current_vix
VixScale(vix) ==
    IF vix >= vix_extreme_threshold THEN <<1, 4>>
    ELSE IF vix >= vix_high_threshold THEN <<1, 2>>
    ELSE ROne

_apply_volatility_scaling_open(ts, vix) ==
    IF RLt(VixScale(vix), ROne)
    THEN ScaleTargets(SelectSeq(ts, LAMBDA t : t.quantity # RZero), VixScale(vix))
    ELSE ts

\* targets = [PortfolioTarget(t.symbol, t.quantity * scale_factor) for t in
\* targets] when scale_factor < 1.0
_apply_volatility_scaling(ts, vix) ==
    IF RLt(VixScale(vix), ROne) THEN ScaleTargets(ts, VixScale(vix)) ELSE ts

\* SectorExposureRiskModel._get_sector on the cache and the fundamentals
_get_sector(cache, fund, s) ==
    IF cache[s] # NoSector THEN cache[s]
    ELSE IF fund[s] = NoFundamentals THEN NoSector
    ELSE IF fund[s] = 0 THEN "Unknown"
    ELSE IF fund[s] = 101 THEN "101" ELSE "102"

SectorCache(cache, fund, ts) ==
    [s \in Symbols |-> IF s \in SymbolsOf(ts) THEN _get_sector(cache, fund, s) ELSE cache[s]]

SectorExposure_signed(ts, cache, sector) ==
    RSum([i \in 1..Len(ts) |->
            IF cache[ts[i].symbol] = sector THEN ts[i].quantity ELSE RZero])

\* sector_exposure[sector]: the sum of abs(target.quantity) over the sector
SectorExposure(ts, cache, sector) ==
    RSum([i \in 1..Len(ts) |->
            IF cache[ts[i].symbol] = sector THEN RAbs(ts[i].quantity) ELSE RZero])

\* SectorExposureRiskModel.manage_risk, cache being the sectors after the
\* first loop
SectorManageRisk(ts, cache) ==
    [i \in 1..Len(ts) |->
        LET sector == cache[ts[i].symbol]
        IN  IF sector # NoSector /\ RLt(max_sector_exposure, SectorExposure(ts, cache, sector))
            THEN PortfolioTarget(ts[i].symbol,
                    RMul(ts[i].quantity,
                         RDiv(max_sector_exposure, SectorExposure(ts, cache, sector))))
            ELSE ts[i]]

\* one cycle from the signals on: construction, then the overlay layers
\* (add_risk_management order: volatility-scaled model, then sector model)
Overlay(dt, sigs, mk) ==
    LET now == time + dt
        due == _should_rebalance(now, last_rebalance_time)
        pc == determine_target_percent(pc_strategy, now, sigs, insight_collection,
                                       last_rebalance_time, max_position_weight,
                                       max_gross_exposure, mk.vols)
    IN  /\ manage_risk(dt, mk.equity, mk.portfolio, pc.targets)
        /\ signals' = sigs
        /\ rebalance_due' = due
        /\ pc_targets' = pc.targets
        /\ insight_collection' = pc.collection
        /\ last_rebalance_time' = pc.last
        /\ current_vix' = VixSeen(current_vix, mk.vix)
        /\ sector_by_symbol' =
              SectorCache(sector_by_symbol, mk.fund,
                          _apply_volatility_scaling(risk_result', current_vix'))
        /\ final_targets' =
              IF outcome' = "raised" THEN <<>>
              ELSE SectorManageRisk(_apply_volatility_scaling(risk_result', current_vix'),
                                    sector_by_symbol')
        /\ prev_final' = final_targets
        /\ collection_before' = insight_collection
        /\ vol_targets' = IF outcome' = "raised" THEN <<>>
                          ELSE _apply_volatility_scaling(risk_result', current_vix')
        /\ repeat' = (outcome # "none" /\ dt = 0 /\ mk = market /\ ~gate.touched)
        /\ market' = mk
        /\ UNCHANGED configVars

Flat == Holding(0, 100, 100)

InitRiskModel ==
    /\ time = 0
    /\ high_water_mark = 0
    /\ daily_starting_equity = 0
    /\ last_equity_date = NoDate
    /\ position_high_marks = [s \in Symbols |-> NoMark]
    /\ is_risk_off = FALSE
    /\ risk_off_until = NoTime
    /\ current_equity = 0
    /\ portfolio = [s \in Symbols |-> Flat]
    /\ targets = <<>>
    /\ risk_result = <<>>
    /\ outcome = "none"
    /\ checked = <<>>
    /\ marks_checked = [s \in Symbols |-> NoMark]
    /\ entered_at = NoTime
    /\ ex_step = 0
    /\ equity_seen = 0
    /\ day = [open |-> 0, first |-> FALSE]
    /\ stale = {}
    /\ was_off = FALSE

NoGate == [gated |-> FALSE, generation_before |-> NoTime, rebalance_before |-> NoTime,
           generated_today |-> 0, rebalanced_today |-> 0, touched |-> FALSE,
           starved |-> FALSE]

NoMarket == [equity |-> 0, portfolio |-> [s \in Symbols |-> Flat],
             vols |-> [s \in Symbols |-> NoVol], vix |-> 0,
             fund |-> [s \in Symbols |-> NoFundamentals],
             snap |-> [s \in Symbols |-> [is_ready |-> FALSE, listed |-> FALSE,
                                           price |-> 0, value |-> 0]]]

InitModels ==
    /\ momentum_by_symbol = <<>>
    /\ last_generation_time = NoTime
    /\ last_rebalance_time = NoTime
    /\ insight_collection = <<>>
    /\ current_vix = vix_default
    /\ sector_by_symbol = [s \in Symbols |-> NoSector]
    /\ market = NoMarket
    /\ signals = <<>>
    /\ pc_targets = <<>>
    /\ final_targets = <<>>
    /\ rebalance_due = FALSE
    /\ prev_final = <<>>
    /\ repeat = FALSE
    /\ collection_before = <<>>
    /\ vol_targets = <<>>
    /\ gate = NoGate

\* the configuration of MomentumFrameworkAlgorithm, n_long and n_short aside
InitRisk ==
    /\ n_long = n_long_default
    /\ n_short = n_short_default
    /\ pc_strategy = "equal"
    /\ max_position_weight = <<3, 25>>
    /\ max_gross_exposure = <<2, 1>>
    /\ vix_symbol = "none"

\* ------------------------------------------------ the kill-switch machine
EquityValues == {89, 90, 95, 97, 100}

Tenth == <<1, 10>>

LongA == [s \in Symbols |-> IF s = "A" THEN Holding(1, 100, 100) ELSE Flat]
LongAShortB ==
    [s \in Symbols |-> IF s = "A" THEN Holding(1, 100, 100)
                       ELSE IF s = "B" THEN Holding(-1, 100, 100) ELSE Flat]
AllFlat == [s \in Symbols |-> Flat]

\* the snapshots and incoming targets the kill-switch machine is run on
RiskInputs ==
    { [portfolio |-> AllFlat, targets |-> <<>>],
      [portfolio |-> AllFlat,
       targets |-> <<PortfolioTarget("A", Tenth), PortfolioTarget("B", RNeg(Tenth))>>],
      [portfolio |-> LongA,
       targets |-> <<PortfolioTarget("B", Tenth), PortfolioTarget("B", Tenth)>>],
      [portfolio |-> LongAShortB,
       targets |-> <<PortfolioTarget("A", Tenth), PortfolioTarget("B", RNeg(Tenth))>>] }

ManageRisk ==
    /\ \E dt \in 0..MaxStep, eq \in EquityValues, in \in RiskInputs :
          manage_risk(dt, eq, in.portfolio, in.targets)
    /\ UNCHANGED <<configVars, alphaVars, pcVars, layerVars, cycleVars>>

SecuritiesChanged ==
    /\ \E removed \in SUBSET Symbols : removed # {} /\ on_securities_changed(removed)
    /\ UNCHANGED <<configVars, alphaVars, pcVars, layerVars, cycleVars>>

Init == InitRiskModel /\ InitModels /\ InitRisk

Next == ManageRisk \/ SecuritiesChanged

Spec == Init /\ [][Next]_vars

\* ----------------------------------------- the overlay on a failing account
EdgeEquity == {-10, -9, -5, 0, 100}

ManageEdge ==
    /\ \E dt \in {0, 1}, eq \in EdgeEquity, in \in RiskInputs :
          manage_risk(dt, eq, in.portfolio, in.targets)
    /\ UNCHANGED <<configVars, alphaVars, pcVars, layerVars, cycleVars>>

NextEdge == ManageEdge

SpecEdge == Init /\ [][NextEdge]_vars

\* ------------------------------------------------- the per-position checks
\* equity stays at its first value, so every cycle reaches the position checks
PositionEquity == 100

HoldingsA ==
    { Flat,
      Holding(1, 100, 100), Holding(1, 100, 95), Holding(1, 100, 94),
      Holding(1, 90, 92), Holding(1, 90, 91),
      Holding(-1, 100, 105), Holding(-1, 100, 106),
      Holding(3, 100, 100) }
HoldingsB == {Flat, Holding(-1, 100, 100), Holding(3, 100, 100)}

PositionPortfolios ==
    {[s \in Symbols |-> IF s = "A" THEN a ELSE IF s = "B" THEN b ELSE Flat] :
        a \in HoldingsA, b \in HoldingsB}

PositionTargetLists ==
    { <<>>,
      <<PortfolioTarget("B", RNeg(Tenth))>>,
      <<PortfolioTarget("A", Tenth), PortfolioTarget("B", RNeg(Tenth))>> }

ManagePositions ==
    /\ \E pf \in PositionPortfolios, ts \in PositionTargetLists :
          manage_risk(1, PositionEquity, pf, ts)
    /\ UNCHANGED <<configVars, alphaVars, pcVars, layerVars, cycleVars>>

NextPositions == ManagePositions \/ SecuritiesChanged

SpecPositions == Init /\ [][NextPositions]_vars

\* ---------------------------------------- construction and overlay layers
PositionLimits == {<<3, 25>>, <<1, 2>>}
GrossLimits == {<<1, 5>>, <<2, 1>>}

InitConstruction ==
    /\ InitRiskModel
    /\ InitModels
    /\ n_long = n_long_default
    /\ n_short = n_short_default
    /\ pc_strategy \in {"equal", "confidence", "parity"}
    /\ max_position_weight \in PositionLimits
    /\ max_gross_exposure \in GrossLimits
    /\ vix_symbol \in {"none", "VIX"}

Sig(s, dir, conf, now) == Insight(s, dir, 10, conf, now)

SignalSets(now) ==
    { <<>>,
      <<Sig("A", "UP", <<9, 10>>, now), Sig("B", "DOWN", <<3, 10>>, now)>>,
      <<Sig("A", "UP", <<1, 2>>, now), Sig("B", "UP", <<9, 10>>, now),
        Sig("C", "DOWN", <<1, 2>>, now)>>,
      <<Sig("C", "UP", <<3, 10>>, now), Sig("A", "DOWN", <<3, 10>>, now)>> }

Quiet == [NoMarket EXCEPT !.equity = 100]

Stressed ==
    [equity |-> 100,
     portfolio |-> [s \in Symbols |-> IF s = "A" THEN Holding(3, 100, 100) ELSE Flat],
     vols |-> [s \in Symbols |-> IF s = "A" THEN <<1, 10>>
                                 ELSE IF s = "B" THEN <<1, 5>> ELSE NoVol],
     vix |-> 30,
     fund |-> [s \in Symbols |-> 101],
     snap |-> NoMarket.snap]

Panic ==
    [equity |-> 100,
     portfolio |-> [s \in Symbols |-> IF s = "B" THEN Holding(-1, 100, 106) ELSE Flat],
     vols |-> [s \in Symbols |-> <<1, 5>>],
     vix |-> 40,
     fund |-> [s \in Symbols |-> IF s = "A" THEN 0
                                 ELSE IF s = "B" THEN 102 ELSE NoFundamentals],
     snap |-> NoMarket.snap]

\* the account has lost 20% while the index is at the extreme threshold
Crash ==
    [equity |-> 80,
     portfolio |-> [s \in Symbols |-> IF s = "A" THEN Holding(1, 100, 100)
                                       ELSE IF s = "B" THEN Holding(-1, 100, 100) ELSE Flat],
     vols |-> [s \in Symbols |-> <<1, 5>>],
     vix |-> 40,
     fund |-> [s \in Symbols |-> 101],
     snap |-> NoMarket.snap]

Markets == {Quiet, Stressed, Panic, Crash}

\* construction cycles are a day or more apart; after exactly one day the
\* insights of the cycle before are still active
Construct ==
    /\ \E dt \in {OneDay, OneDay + 1}, mk \in Markets :
          \E sigs \in SignalSets(time + dt) : Overlay(dt, sigs, mk)
    /\ UNCHANGED <<alphaVars, gate>>

NextConstruction == Construct

SpecConstruction == InitConstruction /\ [][NextConstruction]_vars

\* ------------------------------------------------------------ the pipeline
MaxSide == 1

InitPipeline ==
    /\ InitRiskModel
    /\ InitModels
    /\ n_long \in 1..MaxSide
    /\ n_short \in 0..MaxSide
    /\ pc_strategy \in {"equal", "parity"}
    /\ max_position_weight = <<3, 25>>
    /\ max_gross_exposure = <<2, 1>>
    /\ vix_symbol = "none"

Quote(ready, p, v) == [is_ready |-> ready, listed |-> TRUE, price |-> p, value |-> v]

Trending ==
    [Quiet EXCEPT !.snap = [s \in Symbols |->
        IF s = "A" THEN Quote(TRUE, 50, 20)
        ELSE IF s = "B" THEN Quote(TRUE, 50, 5) ELSE Quote(TRUE, 50, -7)]]

Thin ==
    [Quiet EXCEPT !.equity = 89, !.snap = [s \in Symbols |->
        IF s = "A" THEN Quote(TRUE, 50, 600)
        ELSE IF s = "B" THEN Quote(TRUE, 50, 5) ELSE Quote(FALSE, 50, 5)]]

PipelineMarkets == {Trending, Thin}

\* a run repeats the instant of the run before or comes one tick later
CycleSteps == {0, 1}

\* one run of the pipeline: update, determine_target_percent, the overlay
RunCycle ==
    \E dt \in CycleSteps, mk \in PipelineMarkets :
        LET now == time + dt
            u == update(now, last_generation_time, momentum_by_symbol, mk.snap,
                        n_long, n_short)
            gated == GenerationGated(last_generation_time, now)
            pc == determine_target_percent(pc_strategy, now, u.insights, insight_collection,
                                           last_rebalance_time, max_position_weight,
                                           max_gross_exposure, mk.vols)
        IN  /\ Overlay(dt, u.insights, mk)
            /\ last_generation_time' = u.last_generation_time
            /\ gate' = [gated |-> gated,
                        generation_before |-> last_generation_time,
                        rebalance_before |-> last_rebalance_time,
                        generated_today |->
                            IF gated THEN gate.generated_today
                            ELSE IF last_generation_time # NoTime
                                    /\ date(last_generation_time) = date(now)
                                 THEN gate.generated_today + 1 ELSE 1,
                        rebalanced_today |->
                            IF pc.targets = <<>> THEN gate.rebalanced_today
                            ELSE IF last_rebalance_time # NoTime
                                    /\ date(last_rebalance_time) = date(now)
                                 THEN gate.rebalanced_today + 1 ELSE 1,
                        touched |-> FALSE,
                        starved |->
                            IF gated THEN gate.starved
                            ELSE Insufficient(
                                    Len(_calculate_momentum_scores(momentum_by_symbol,
                                                                   mk.snap)),
                                    n_long, n_short)]
            /\ UNCHANGED momentum_by_symbol

ListingOrder == SymOrder \o <<"TQQQ">>

UniverseChanges ==
    { [added |-> {"A", "B", "C", "TQQQ"}, removed |-> {}],
      [added |-> {}, removed |-> {"C"}] }

\* a universe change reaches the on_securities_changed of every model
UniverseChanged ==
    \E ch \in UniverseChanges :
        /\ momentum_by_symbol' =
              RemoveTracked(AddTracked(momentum_by_symbol,
                                       SelectSeq(ListingOrder, LAMBDA s : s \in ch.added)),
                            ch.removed)
        /\ insight_collection' =
              SelectSeq(insight_collection, LAMBDA i : i.symbol \notin ch.removed)
        /\ on_securities_changed(ch.removed)
        /\ gate' = [gate EXCEPT !.touched = TRUE]
        /\ UNCHANGED <<configVars, last_generation_time, last_rebalance_time, layerVars,
                       market, signals, pc_targets, final_targets, rebalance_due,
                       prev_final, repeat, collection_before, vol_targets>>

NextPipeline == RunCycle \/ UniverseChanged

SpecPipeline == InitPipeline /\ [][NextPipeline]_vars

\* ------------------------------------------------------------ the ranker
ScoreValues == {-501, -500, 499, 500, 600}

QuotesA == {Quote(r, p, v) : r \in BOOLEAN, p \in {0, 50}, v \in ScoreValues}
QuotesB == {Quote(TRUE, 50, 500), Quote(TRUE, 50, 600), Quote(FALSE, 50, 5),
            Quote(TRUE, 0, 5)}
QuotesC == {Quote(TRUE, 50, 499), Quote(TRUE, 50, -501)}

Snapshots ==
    {[s \in Symbols |-> IF s = "A" THEN a ELSE IF s = "B" THEN b ELSE c] :
        a \in QuotesA, b \in QuotesB, c \in QuotesC}

TrackedOrders == {<<"A", "B", "C">>, <<"C", "A">>}

\* the models after the first universe change
InitTracked ==
    /\ momentum_by_symbol \in TrackedOrders
    /\ last_generation_time = NoTime
    /\ last_rebalance_time = NoTime
    /\ insight_collection = <<>>
    /\ current_vix = vix_default
    /\ sector_by_symbol = [s \in Symbols |-> NoSector]
    /\ market = NoMarket
    /\ signals = <<>>
    /\ pc_targets = <<>>
    /\ final_targets = <<>>
    /\ rebalance_due = FALSE
    /\ prev_final = <<>>
    /\ repeat = FALSE
    /\ collection_before = <<>>
    /\ vol_targets = <<>>
    /\ gate = NoGate

InitRanker ==
    /\ InitRiskModel
    /\ InitTracked
    /\ n_long = 1
    /\ n_short = 1
    /\ pc_strategy = "equal"
    /\ max_position_weight = <<3, 25>>
    /\ max_gross_exposure = <<2, 1>>
    /\ vix_symbol = "none"

\* update on the next day's snapshot
Rank ==
    \E snap \in Snapshots :
        LET now == time + OneDay
            u == update(now, last_generation_time, momentum_by_symbol, snap, n_long, n_short)
        IN  /\ now <= MaxTime
            /\ time' = now
            /\ market' = [NoMarket EXCEPT !.snap = snap]
            /\ signals' = u.insights
            /\ last_generation_time' = u.last_generation_time
            /\ UNCHANGED <<high_water_mark, daily_starting_equity, last_equity_date,
                           position_high_marks, is_risk_off, risk_off_until,
                           current_equity, portfolio, targets, risk_result, outcome,
                           checked, marks_checked, entered_at, ex_step, equity_seen,
                           day, stale, was_off,
                           configVars,
                           momentum_by_symbol, pcVars, layerVars, pc_targets,
                           final_targets, rebalance_due, prev_final, repeat,
                           collection_before, vol_targets, gate>>

NextRanker == Rank

SpecRanker == InitRanker /\ [][NextRanker]_vars

TypeOK ==
    /\ time \in 0..MaxTime
    /\ is_risk_off \in BOOLEAN
    /\ outcome \in {"none", "cooldown", "raised", "drawdown", "daily", "normal"}

\* ------------------------------------------------------------------ claims
InvestedSymbols(pf) == {s \in Symbols : pf[s].quantity # 0}

\* the list holds exactly one zero target for each invested holding and each
\* symbol of the incoming targets
FullLiquidation(res, pf, ts) ==
    /\ \A i \in 1..Len(res) : res[i].quantity = <<0, 1>>
    /\ {res[i].symbol : i \in 1..Len(res)}
          = InvestedSymbols(pf) \cup {ts[i].symbol : i \in 1..Len(ts)}
    /\ \A i, j \in 1..Len(res) : res[i].symbol = res[j].symbol => i = j

Liquidated == outcome \in {"cooldown", "drawdown", "daily"}

\* C1: after risk-off is entered at time T, every manage_risk call at a time
\* before T + 24h returns zero-quantity targets only; the first call at or
\* after T + 24h is not discarded: it goes through the drawdown, daily-loss
\* and per-position checks, and when these pass the mode is NORMAL again.
C1_Rejects ==
    (entered_at # NoTime /\ time < entered_at + TicksPerDay)
        => (Liquidated /\ \A i \in 1..Len(risk_result) : risk_result[i].quantity = <<0, 1>>)

C1_Resumes ==
    (is_risk_off /\ time' >= entered_at + TicksPerDay)
        => /\ outcome' \in {"drawdown", "daily", "normal"}
           /\ outcome' = "normal" => (~is_risk_off' /\ Len(risk_result') = Len(targets'))
           /\ outcome' # "normal" => (is_risk_off' /\ entered_at' = time')

C1_Cooldown == [](C1_Rejects) /\ [][C1_Resumes]_vars

C1_Witness ==
    /\ outcome = "cooldown"
    /\ date(time) > date(entered_at)
    /\ \E i \in 1..Len(targets) : targets[i].quantity # <<0, 1>>

\* C2: in a cycle outside an active cooldown the drawdown check triggers
\* exactly when (highWaterMark - E) / highWaterMark > maxDrawdownPct (equality
\* does not trigger); it then switches to risk-off with resumeAt = now + 1 day
\* and returns the full liquidation.  After the equities 100, 100, 95, 89 the
\* engine is in risk-off and the fourth cycle returned zero targets only; the
\* next cycle returns zero targets only when it comes before resumeAt.
C2_Trigger ==
    outcome \in {"drawdown", "daily", "normal"}
        => /\ outcome = "drawdown"
                <=> (high_water_mark - current_equity) * 10 > high_water_mark
           /\ outcome = "drawdown"
                => /\ is_risk_off
                   /\ risk_off_until = time + TicksPerDay
                   /\ FullLiquidation(risk_result, portfolio, targets)

C2_Example ==
    ex_step = 4 => (is_risk_off /\ Liquidated /\ AllZero(risk_result))

C2_Drawdown ==
    /\ C2_Trigger
    /\ C2_Example
    /\ (ex_step = 5 /\ time < entered_at + TicksPerDay) => AllZero(risk_result)

\* C2 as stated: the targets of the cycle after the fourth are all zero
C2_Original ==
    /\ C2_Trigger
    /\ C2_Example
    /\ ex_step = 5 => AllZero(risk_result)

C2_Witness ==
    /\ ex_step = 4
    /\ outcome = "drawdown"
    /\ current_equity = 89 /\ high_water_mark = 100
    /\ ~AllZero(targets)

\* C3: in a cycle outside an active cooldown whose drawdown check passes, the
\* daily-loss check triggers exactly when (E - dailyStartingEquity) /
\* dailyStartingEquity < -dailyLossLimit; it then switches to risk-off with
\* resumeAt = now + 24h and returns the full liquidation.
C3_DailyLoss ==
    outcome \in {"daily", "normal"}
        => /\ outcome = "daily"
                <=> (current_equity - daily_starting_equity) * 100
                        < -(3 * daily_starting_equity)
           /\ outcome = "daily"
                => /\ is_risk_off
                   /\ risk_off_until = time + TicksPerDay
                   /\ FullLiquidation(risk_result, portfolio, targets)

C3_Witness ==
    /\ outcome = "daily"
    /\ (high_water_mark - current_equity) * 10 <= high_water_mark
    /\ ~AllZero(targets)

\* C10: a forced liquidation (cooldown, drawdown breach, daily-loss breach)
\* returns one zero target for every invested holding and every symbol of the
\* incoming targets, each symbol once, and no non-zero target.
C10_Liquidation == Liquidated => FullLiquidation(risk_result, portfolio, targets)

C10_Witness ==
    /\ Liquidated
    /\ InvestedSymbols(portfolio) # {}
    /\ \E i, j \in 1..Len(targets) : i # j /\ targets[i].symbol = targets[j].symbol
    /\ InvestedSymbols(portfolio) \cap SymbolsOf(targets) = {}

\* sign-aware unrealized pnl% of a holding strictly below -positionStopLossPct
StopLossHit(h) ==
    IF h.quantity > 0
    THEN (h.price - h.average_price) * 20 < -h.average_price
    ELSE (h.average_price - h.price) * 20 < -h.average_price

ZeroTargetFor(res, s) ==
    /\ \E i \in 1..Len(res) : res[i].symbol = s
    /\ \A i \in 1..Len(res) : res[i].symbol = s => res[i].quantity = <<0, 1>>

\* C8: in a NORMAL cycle that passes the portfolio checks, every open
\* position whose pnl% is strictly below -positionStopLossPct gets the
\* target 0 in the returned list, whether or not the incoming targets name
\* its symbol.
C8_StopLoss ==
    outcome = "normal"
        => \A s \in Symbols :
              (portfolio[s].quantity # 0 /\ StopLossHit(portfolio[s]))
                  => ZeroTargetFor(risk_result, s)

\* C9: in a NORMAL cycle that passes the portfolio checks, every open
\* position that is not hard-stopped and whose absolute market value is
\* strictly below positionHighMarks[symbol] * (1 - trailingStopPct) gets the
\* target 0 from the position checks, and an open position that trips
\* neither stop keeps its incoming target.
C9_TrailingStop ==
    outcome = "normal"
        => \A s \in Symbols :
              (portfolio[s].quantity # 0 /\ ~StopLossHit(portfolio[s]))
                  => IF Abs(portfolio[s].quantity * portfolio[s].price) * 25
                          < marks_checked[s] * 23
                     THEN ZeroTargetFor(checked, s)
                     ELSE /\ Len(checked) = Len(targets)
                          /\ \A i \in 1..Len(targets) :
                                targets[i].symbol = s => checked[i] = targets[i]

Within(ts, limit) ==
    \A i \in 1..Len(ts) :
        Abs(ts[i].quantity[1]) * limit[2] <= limit[1] * ts[i].quantity[2]

\* C4: whichever of the three strategies is plugged in, the targets that
\* determine_target_percent returns have sum of |weight| <= maxGrossExposure.
C4_GrossBound ==
    LET gross == RSum([i \in 1..Len(pc_targets) |-> RAbs(pc_targets[i].quantity)])
    IN  gross[1] * max_gross_exposure[2] <= max_gross_exposure[1] * gross[2]

\* C5: every target a construction strategy returns has |weight| <=
\* maxPositionWeight, and so has every target left by the risk overlay's
\* stop, gross, volatility and sector passes.
C5_PositionBound ==
    /\ Within(pc_targets, max_position_weight)
    /\ Within(risk_result, max_position_weight)
    /\ Within(final_targets, max_position_weight)

C5_Witness ==
    /\ \E i \in 1..Len(pc_targets) : RAbs(pc_targets[i].quantity) = max_position_weight
    /\ \E i \in 1..Len(final_targets) :
          /\ final_targets[i].quantity # <<0, 1>>
          /\ final_targets[i].quantity # pc_targets[i].quantity
    /\ \E i \in 1..Len(final_targets) : final_targets[i].quantity = <<0, 1>>

C7_DateGate ==
    outcome # "none" =>
        /\ gate.gated <=> /\ gate.generation_before # NoTime
                          /\ date(gate.generation_before) = date(time)
        /\ gate.gated => signals = <<>> /\ last_generation_time = gate.generation_before
        /\ ~gate.gated => last_generation_time = time
        /\ rebalance_due <=> \/ gate.rebalance_before = NoTime
                             \/ date(time) > date(gate.rebalance_before)
        /\ gate.generated_today <= 1
        /\ gate.rebalanced_today <= 1

\* signals accepted on a new date less than a day after the generation before
C7_Witness ==
    /\ ~gate.gated
    /\ gate.generation_before # NoTime
    /\ time - gate.generation_before < OneDay
    /\ signals # <<>>
    /\ pc_targets # <<>>
    /\ gate.rebalance_before # NoTime

\* C11: in the risk-parity strategy, when the volatility of any one instrument
\* with an active signal is unavailable, the targets returned are those the
\* equal-weight strategy returns for the same signals, and every instrument
\* with a signal has a target.
C11_Fallback ==
    LET active == ActiveInsights(collection_before, signals, time)
    IN  (/\ pc_strategy = "parity"
         /\ signals # <<>>
         /\ \E k \in 1..Len(active) : market.vols[active[k].symbol] = NoVol)
        => /\ pc_targets = EqualWeight(time, signals, collection_before, NoTime,
                                       max_position_weight, max_gross_exposure).targets
           /\ \A k \in 1..Len(signals) : signals[k].symbol \in SymbolsOf(pc_targets)

\* the scores the last run ranked, and whether its update passed the date gate
Scored == _calculate_momentum_scores(momentum_by_symbol, market.snap)

Generated == outcome # "none" /\ ~gate.touched /\ ~gate.gated

ScoreOf(s) == market.snap[s].value

\* C12: a run whose filters leave fewer than nLong + nShort instruments emits
\* no signal and constructs no target, and completes: last_generation_time is
\* stamped and the overlay has run.
C12_Insufficient ==
    (Generated /\ Len(Scored) < n_long + n_short) =>
        /\ signals = <<>>
        /\ pc_targets = <<>>
        /\ last_generation_time = time
        /\ outcome \in {"normal", "drawdown", "daily", "cooldown"}

C12_Witness ==
    /\ Generated
    /\ Len(Scored) = 1
    /\ n_long + n_short = 2
    /\ signals = <<>>
    /\ pc_targets = <<>>
    /\ insight_collection # <<>>

\* C13: a run that ranks at least nLong + nShort instruments emits exactly
\* nLong LONG signals, on the highest scores, and exactly nShort SHORT
\* signals, on the lowest scores; none when nShort = 0.
C13_Counts ==
    (Generated /\ Len(Scored) >= n_long + n_short) =>
        /\ Len(Ups(signals)) = n_long
        /\ Len(Downs(signals)) = n_short
        /\ \A i \in 1..Len(Ups(signals)), k \in 1..Len(Scored) :
              Scored[k].symbol \notin SymbolsOf(Ups(signals))
                  => ScoreOf(Ups(signals)[i].symbol) >= Scored[k].score
        /\ \A i \in 1..Len(Downs(signals)), k \in 1..Len(Scored) :
              Scored[k].symbol \notin SymbolsOf(Downs(signals))
                  => ScoreOf(Downs(signals)[i].symbol) <= Scored[k].score

\* what C14 says keeps an instrument in the scores
Retained(s) ==
    /\ market.snap[s].is_ready
    /\ market.snap[s].price > 0
    /\ market.snap[s].value >= -500
    /\ market.snap[s].value <= 500

\* C14: the scores are exactly the tracked instruments that are ready, have a
\* positive price and a raw score of absolute value at most 500, each with
\* its own score, whatever the other instruments are; 600 is discarded, 499
\* and 500 are kept; and no signal is emitted on a discarded instrument.
C14_Filter ==
    /\ Scored = [k \in 1..Len(SelectSeq(momentum_by_symbol, Retained)) |->
                    [symbol |-> SelectSeq(momentum_by_symbol, Retained)[k],
                     score |-> ScoreOf(SelectSeq(momentum_by_symbol, Retained)[k])]]
    /\ \A k \in 1..Len(signals) : Retained(signals[k].symbol)

C14_Witness ==
    /\ market.snap["A"] = Quote(TRUE, 50, 600)
    /\ market.snap["B"] = Quote(TRUE, 50, 500)
    /\ market.snap["C"] = Quote(TRUE, 50, 499)
    /\ momentum_by_symbol = <<"A", "B", "C">>
    /\ SymbolsOf(Scored) = {"B", "C"}
    /\ SymbolsOf(signals) = {"B", "C"}

\* C15: manage_risk never fails on a division by zero, whatever the equity,
\* and with an equity <= 0 the gross-exposure pass scales nothing.
C15_NoDivision ==
    /\ outcome # "raised"
    /\ (outcome = "normal" /\ current_equity <= 0) => risk_result = checked

\* C20: the overlay starts in NORMAL, and after every manage_risk call
\* highWaterMark is the highest equity observed so far.
C20_HighWaterMark ==
    /\ outcome = "none" => ~is_risk_off /\ high_water_mark = 0
    /\ outcome # "none" => high_water_mark = equity_seen

\* C16: in a NORMAL cycle manage_risk returns the targets that survive the
\* stop checks, scaled by maxGrossExposure / sum when their sum of |weight|
\* exceeds maxGrossExposure and untouched otherwise, so the returned sum of
\* |weight| never exceeds maxGrossExposure, whatever is held.
C16_Recheck ==
    outcome = "normal" =>
        /\ risk_result =
              IF RLt(risk_max_gross_exposure, GrossOf(checked))
              THEN ScaleTargets(checked, RDiv(risk_max_gross_exposure, GrossOf(checked)))
              ELSE checked
        /\ RLe(GrossOf(risk_result), risk_max_gross_exposure)

\* the targets the sector layer received in the last cycle, and the summed
\* |weight| a target list puts on a sector
SectorInput == _apply_volatility_scaling(risk_result, current_vix)

SectorGross(ts, sector) ==
    RSum([i \in 1..Len(ts) |->
            IF sector_by_symbol[ts[i].symbol] = sector THEN RAbs(ts[i].quantity)
            ELSE RZero])

\* C17: the sector layer scales by cap / sectorExposure exactly the targets
\* of the sectors whose summed |weight| exceeds the cap, leaves every other
\* target alone, those without a known sector included, and afterwards no
\* sector's summed |weight| exceeds the cap.
C17_SectorCap ==
    outcome \in {"normal", "drawdown", "daily", "cooldown"} =>
        /\ Len(final_targets) = Len(SectorInput)
        /\ \A i \in 1..Len(SectorInput) :
              LET sector == sector_by_symbol[SectorInput[i].symbol]
                  exposure == SectorGross(SectorInput, sector)
              IN  /\ final_targets[i].symbol = SectorInput[i].symbol
                  /\ final_targets[i].quantity =
                        IF sector # NoSector /\ RLt(max_sector_exposure, exposure)
                        THEN RMul(SectorInput[i].quantity,
                                  RDiv(max_sector_exposure, exposure))
                        ELSE SectorInput[i].quantity
        /\ \A sector \in {"Unknown", "101", "102"} :
              RLe(SectorGross(final_targets, sector), max_sector_exposure)

C17_Witness ==
    /\ outcome = "normal"
    /\ \E i \in 1..Len(final_targets) :
          /\ sector_by_symbol[final_targets[i].symbol] # NoSector
          /\ final_targets[i].quantity # SectorInput[i].quantity
    /\ \E i \in 1..Len(final_targets) :
          /\ sector_by_symbol[final_targets[i].symbol] = NoSector
          /\ final_targets[i].quantity # RZero
          /\ final_targets[i].quantity = SectorInput[i].quantity
    /\ \E i \in 1..Len(final_targets) :
          /\ sector_by_symbol[final_targets[i].symbol] # NoSector
          /\ final_targets[i].quantity # RZero
          /\ final_targets[i].quantity = SectorInput[i].quantity

\* the summed weight of the targets of one sign
SideSum(ts, sign) ==
    RSum([i \in 1..Len(ts) |->
            IF ts[i].quantity[1] * sign > 0 THEN RAbs(ts[i].quantity) ELSE RZero])

\* weight_i = confidence_i / (sum of confidence on its side) * 0.5, capped
C18_Weights ==
    \A i \in 1..Len(pc_targets) :
        LET side == IF pc_targets[i].quantity[1] > 0 THEN Ups(insight_collection)
                    ELSE Downs(insight_collection)
            total == RSum([k \in 1..Len(side) |-> side[k].confidence])
        IN  \E k \in 1..Len(side) :
                /\ side[k].symbol = pc_targets[i].symbol
                /\ RAbs(pc_targets[i].quantity) =
                      RMin(RMul(RDiv(side[k].confidence, total), RHalf),
                           max_position_weight)

\* C18: the confidence-weighted strategy gives every instrument its share of
\* the side's confidence times 0.5, capped at maxPositionWeight, and the
\* list is market-neutral: each side sums to 0.5, so the net exposure is 0.
C18_Neutral ==
    (pc_strategy = "confidence" /\ pc_targets # <<>>) =>
        /\ C18_Weights
        /\ SideSum(pc_targets, 1) = RHalf
        /\ SideSum(pc_targets, -1) = RHalf
        /\ RSum([i \in 1..Len(pc_targets) |-> pc_targets[i].quantity]) = RZero

\* C19: a universe change that removes a set of instruments deletes their
\* positionHighMarks entries, keeps every other entry, and leaves the mode,
\* resumeAt, highWaterMark, dailyStartingEquity and the equity date alone.
C19_Frame ==
    [][\A removed \in SUBSET Symbols :
          on_securities_changed(removed) =>
              /\ \A s \in removed : position_high_marks'[s] = NoMark
              /\ \A s \in Symbols \ removed :
                    position_high_marks'[s] = position_high_marks[s]
              /\ UNCHANGED <<is_risk_off, risk_off_until, high_water_mark,
                             daily_starting_equity, last_equity_date>>]_vars

\* A's mark has been deleted since the last cycle, in RISK_OFF, and B's kept
C19_Witness ==
    /\ marks_checked["A"] # NoMark
    /\ position_high_marks["A"] = NoMark
    /\ position_high_marks["B"] # NoMark
    /\ position_high_marks["B"] = marks_checked["B"]
    /\ is_risk_off

\* C21: a cycle that starts in RISK_OFF at or after resumeAt is evaluated in
\* full: the drawdown check, then the daily-loss check, then the per-position
\* checks on the incoming targets; it ends in NORMAL unless one of the two
\* portfolio checks trips on this cycle's own equity.
C21_ResumeSameCycle ==
    [][(is_risk_off /\ time' >= risk_off_until /\ ManageRisk) =>
          LET drawdown == (high_water_mark' - current_equity') * max_drawdown_pct[2]
                              > max_drawdown_pct[1] * high_water_mark'
              daily == (current_equity' - daily_starting_equity') * daily_loss_limit[2]
                           < -(daily_loss_limit[1] * daily_starting_equity')
              pos == _check_position_risk(portfolio', targets', position_high_marks)
          IN  /\ outcome' \in {"normal", "drawdown", "daily"}
              /\ outcome' = "drawdown" <=> drawdown
              /\ outcome' = "daily" <=> (~drawdown /\ daily)
              /\ outcome' = "normal" =>
                    /\ ~is_risk_off'
                    /\ checked' = pos.targets
                    /\ position_high_marks' = pos.marks
              /\ outcome' # "normal" =>
                    /\ is_risk_off'
                    /\ risk_off_until' = time' + Hours24
                    /\ AllZero(risk_result')]_vars

\* the cycle at resumeAt itself has ended in NORMAL with a non-zero target
C21_Witness ==
    /\ risk_off_until # NoTime
    /\ time = risk_off_until
    /\ ~is_risk_off
    /\ outcome = "normal"
    /\ \E i \in 1..Len(risk_result) : risk_result[i].quantity # RZero

\* C22: volatility scaling multiplies every target the base checks return by
\* one multiplier for the whole cycle: 0.25 when the proxy is at or above the
\* extreme threshold, 0.5 when it is at or above the high threshold, else 1.
C22_VolScaling ==
    outcome \in {"normal", "drawdown", "daily", "cooldown"} =>
        LET multiplier == IF current_vix >= vix_extreme_threshold THEN <<1, 4>>
                          ELSE IF current_vix >= vix_high_threshold THEN <<1, 2>>
                          ELSE <<1, 1>>
        IN  /\ Len(vol_targets) = Len(risk_result)
            /\ \A i \in 1..Len(risk_result) :
                  /\ vol_targets[i].symbol = risk_result[i].symbol
                  /\ vol_targets[i].quantity = RMul(risk_result[i].quantity, multiplier)

\* the proxy sits exactly on the high threshold and two targets are halved
C22_Witness ==
    /\ outcome = "normal"
    /\ current_vix = vix_high_threshold
    /\ Len(risk_result) >= 2
    /\ \A i \in 1..Len(risk_result) :
          /\ risk_result[i].quantity # RZero
          /\ RMul(vol_targets[i].quantity, <<2, 1>>) = risk_result[i].quantity

\* the active insights of one direction whose instrument has a volatility
ParitySide(dir) ==
    SelectSeq(insight_collection,
              LAMBDA i : i.direction = dir /\ market.vols[i.symbol] # NoVol)

\* (1 / vol_i) / (sum of 1 / vol on the side) * 0.5
ParityWeight(side, i) ==
    RMul(RDiv(RDiv(ROne, market.vols[side[i].symbol]),
              RSum([k \in 1..Len(side) |-> RDiv(ROne, market.vols[side[k].symbol])])),
         RHalf)

\* C23: when the risk-parity strategy has a volatility to work with, each
\* side's targets are weight_i = (1/vol_i) / (sum of 1/vol on the side) * 0.5,
\* capped at maxPositionWeight, so two uncapped weights of a side satisfy
\* weight_A * vol_A = weight_B * vol_B.
C23_InverseVol ==
    (/\ pc_strategy = "parity"
     /\ signals # <<>>
     /\ \E k \in 1..Len(insight_collection) :
           market.vols[insight_collection[k].symbol] # NoVol) =>
        LET long == ParitySide("UP")
            short == ParitySide("DOWN")
        IN  /\ Len(pc_targets) = Len(long) + Len(short)
            /\ \A i \in 1..Len(long) :
                  /\ pc_targets[i].symbol = long[i].symbol
                  /\ pc_targets[i].quantity =
                        RMin(ParityWeight(long, i), max_position_weight)
            /\ \A i \in 1..Len(short) :
                  /\ pc_targets[Len(long) + i].symbol = short[i].symbol
                  /\ pc_targets[Len(long) + i].quantity =
                        RNeg(RMin(ParityWeight(short, i), max_position_weight))
            /\ \A i, j \in 1..Len(pc_targets) :
                  (/\ pc_targets[i].quantity[1] * pc_targets[j].quantity[1] > 0
                   /\ RLt(RAbs(pc_targets[i].quantity), max_position_weight)
                   /\ RLt(RAbs(pc_targets[j].quantity), max_position_weight))
                  => RMul(pc_targets[i].quantity, market.vols[pc_targets[i].symbol])
                       = RMul(pc_targets[j].quantity, market.vols[pc_targets[j].symbol])

\* vol_A = 0.1 and vol_B = 0.2 on the long side: weight_A : weight_B = 2 : 1
C23_Witness ==
    /\ pc_strategy = "parity"
    /\ market.vols["A"] = <<1, 10>>
    /\ market.vols["B"] = <<1, 5>>
    /\ Len(pc_targets) = 2
    /\ pc_targets[1] = PortfolioTarget("A", <<1, 3>>)
    /\ pc_targets[2] = PortfolioTarget("B", <<1, 6>>)

\* C24: after any manage_risk call dailyStartingEquity is the equity observed
\* at the first call of the current calendar date, in NORMAL and in RISK_OFF.
C24_DailyStart ==
    outcome # "none" =>
        /\ last_equity_date = date(time)
        /\ daily_starting_equity = day.open

\* C25: on the first manage_risk call of a calendar date dailyStartingEquity
\* is that call's own equity, so the daily-loss check cannot trip on it: a
\* run with at most one call per date never enters RISK_OFF by daily loss.
C25_FirstCallSafe ==
    day.first =>
        /\ daily_starting_equity = current_equity
        /\ outcome # "daily"

\* the first call of the second date, 5% below the close of the first
C25_Witness ==
    /\ day.first
    /\ time >= TicksPerDay
    /\ high_water_mark = 100
    /\ current_equity = 95
    /\ outcome = "normal"

\* C26: highWaterMark is not lowered by a cycle that enters or leaves
\* RISK_OFF, so a cycle at cooldown expiry whose equity is still more than
\* maxDrawdownPct below highWaterMark re-enters RISK_OFF with a new resumeAt
\* and returns liquidation; and after a drawdown liquidation every call whose
\* equity is still more than maxDrawdownPct below highWaterMark returns zero
\* targets only.  At an equity of exactly highWaterMark * (1 - maxDrawdownPct)
\* the expiry cycle passes the drawdown check.
C26_MarkKept ==
    (is_risk_off' # is_risk_off) => high_water_mark' >= high_water_mark

C26_Reenters ==
    (/\ is_risk_off
     /\ time' >= risk_off_until
     /\ (high_water_mark - current_equity') * max_drawdown_pct[2]
            > max_drawdown_pct[1] * high_water_mark)
        => /\ outcome' = "drawdown"
           /\ is_risk_off'
           /\ risk_off_until' = time' + OneDay
           /\ AllZero(risk_result')

\* the last call liquidated with the equity in drawdown
InDrawdown ==
    /\ is_risk_off
    /\ (high_water_mark - current_equity) * max_drawdown_pct[2]
           > max_drawdown_pct[1] * high_water_mark

C26_StaysBelow ==
    (/\ InDrawdown
     /\ current_equity' * max_drawdown_pct[2]
            < high_water_mark * (max_drawdown_pct[2] - max_drawdown_pct[1]))
        => AllZero(risk_result')

C26_StaysOut ==
    (/\ InDrawdown
     /\ current_equity' * max_drawdown_pct[2]
            <= high_water_mark * (max_drawdown_pct[2] - max_drawdown_pct[1]))
        => AllZero(risk_result')

C27_CooldownFrame ==
    [][(is_risk_off /\ time' < risk_off_until /\ ManageRisk) =>
          /\ UNCHANGED <<is_risk_off, risk_off_until, position_high_marks>>
          /\ outcome' = "cooldown"
          /\ AllZero(risk_result')]_vars

\* a call later in the cooldown whose equity is 11% under the mark: the
\* resumeAt is still the one set on entry
C27_Witness ==
    /\ outcome = "cooldown"
    /\ was_off /\ is_risk_off
    /\ time > entered_at
    /\ risk_off_until = entered_at + OneDay
    /\ high_water_mark = 100
    /\ current_equity = 89
    /\ \E s \in Symbols : position_high_marks[s] # NoMark

\* C28: a positionHighMarks entry changes only by being raised to the value of
\* an open position named by the incoming targets (_check_position_risk) or
\* by being deleted for a removed security (on_securities_changed); a closed
\* position keeps its entry, so a position reopened in the symbol below the
\* stale peak * (1 - trailingStopPct) gets the target 0 when it is checked.
C28_MarkMoves ==
    \A s \in Symbols :
        position_high_marks'[s] # position_high_marks[s] =>
            \/ /\ position_high_marks'[s] > position_high_marks[s]
               /\ outcome' = "normal"
               /\ invested(portfolio'[s])
               /\ position_high_marks'[s] = Abs(holdings_value(portfolio'[s]))
               /\ s \in SymbolsOf(targets')
            \/ /\ position_high_marks'[s] = NoMark
               /\ \E removed \in SUBSET Symbols :
                     s \in removed /\ on_securities_changed(removed)

C28_Reopened ==
    outcome = "normal" =>
        \A s \in stale :
            (/\ invested(portfolio[s])
             /\ TrailingStop(Abs(holdings_value(portfolio[s])), position_high_marks[s]))
                => \A i \in 1..Len(checked) :
                      checked[i].symbol = s => checked[i].quantity = RZero

C28_StalePeak == [](C28_Reopened) /\ [][C28_MarkMoves]_vars

\* A peaked at 300, was seen flat, and is open again at 100 with no loss on
\* its average price: its incoming target is replaced by 0
C28_Witness ==
    /\ outcome = "normal"
    /\ "A" \in stale
    /\ position_high_marks["A"] = 300
    /\ portfolio["A"] = Holding(1, 100, 100)
    /\ \E i \in 1..Len(checked) :
          /\ checked[i].symbol = "A"
          /\ targets[i].quantity # RZero
          /\ checked[i].quantity = RZero

\* C29: when the base manage_risk returns the liquidation, what the
\* volatility-scaled model returns and what the sector model returns after it
\* are still zero targets only, for the same symbols in the same order.
SameSymbols(ts, us) ==
    /\ Len(ts) = Len(us)
    /\ \A i \in 1..Len(ts) : ts[i].symbol = us[i].symbol

C29_LiquidationKept ==
    Liquidated =>
        /\ AllZero(risk_result)
        /\ AllZero(vol_targets) /\ SameSymbols(vol_targets, risk_result)
        /\ AllZero(final_targets) /\ SameSymbols(final_targets, risk_result)

\* a liquidation of two open positions and a further target, passed through
\* the scaling at 0.25 and through the sector model with every sector known
C29_Witness ==
    /\ outcome = "drawdown"
    /\ vix_symbol = "VIX" /\ current_vix = 40
    /\ Len(risk_result) >= 3
    /\ ~AllZero(pc_targets)
    /\ \A i \in 1..Len(final_targets) :
          sector_by_symbol[final_targets[i].symbol] # NoSector
    /\ AllZero(final_targets)

\* C30: update records the generation time before it counts the scores, so a
\* run that ends with the insufficiency condition uses up its date: every
\* later run on that date emits no signal and leaves last_generation_time
\* alone, however many instruments can be ranked by then.
C30_Stamped ==
    (Generated /\ Len(Scored) < n_long + n_short) =>
        /\ gate.starved
        /\ last_generation_time = time

C30_Later ==
    (gate.starved /\ date(time') = date(time)) =>
        /\ signals' = <<>>
        /\ last_generation_time' = last_generation_time

C30_DateConsumed == [](C30_Stamped) /\ [][C30_Later]_vars

\* the date's generation found too few instruments; this later run on the
\* date could rank enough of them and is gated all the same
C30_Witness ==
    /\ outcome # "none" /\ ~gate.touched
    /\ gate.gated /\ gate.starved
    /\ time > gate.generation_before
    /\ Len(Scored) >= n_long + n_short
    /\ signals = <<>>
    /\ insight_collection = <<>>

====
